---- MODULE Spec2Model ----
(***************************************************************************)
(* A model of src/runmmc.py: the Blender operator `runmmc` (invoke,        *)
(* execute, preparemmc) and the panel `setmmcprop` (draw).                 *)
(*                                                                         *)
(* Floating point values that the code only passes through are opaque     *)
(* values.  The values the code computes with (quaternion, location,      *)
(* affine matrix, srcparam, unitinmm) are exact rationals <<num, den>>;    *)
(* rounding of IEEE doubles is not modelled.                               *)
(***************************************************************************)
EXTENDS Integers, Sequences, FiniteSets

VARIABLES
    objects,      \* bpy.data.objects, in the host's order (sorted by name)
    active,       \* name of bpy.context.object, or NoName
    mat,          \* contents of ImageMesh.mat: [image, scale]
    self,         \* the operator instance's properties
    g,            \* the module-level defaults g_nphoton ... g_tool
    pc,           \* position of the operator
    parameters,   \* local `parameters` of preparemmc
    direction,    \* local `direction` of preparemmc (w, x, y, z)
    cfg,          \* local `cfg` of preparemmc
    res,          \* local `res` of preparemmc
    files,        \* what jd.save has written, per file name
    solverCalls,  \* the calls made to the external solver, in order
    log,          \* the externally visible steps of the run, in order
    iter,         \* the cursor of the cleanup loop's iterator
    panel         \* the layout built by setmmcprop.draw

vars == <<objects, active, mat, self, g, pc, parameters, direction, cfg, res,
          files, solverCalls, log, iter, panel>>

----------------------------------------------------------------------------
(* Bounds of the model *)

\* regions are named region_1 .. region_MaxRegions
MaxRegions == 2
\* quaternion components are k / QMax with k in -QMax .. QMax
QMax == 2
\* numerators and denominators of the affine matrix entries are in 1 .. NumMax
NumMax == 2

----------------------------------------------------------------------------
(* Exact rational arithmetic: <<n, d>> with d > 0 in lowest terms.  A zero  *)
(* denominator stands for the non-finite results of a float division by    *)
(* zero: <<1,0>> = inf, <<-1,0>> = -inf, <<0,0>> = nan.                    *)

Abs(a) == IF a < 0 THEN -a ELSE a

Sign(a) == IF a < 0 THEN -1 ELSE IF a = 0 THEN 0 ELSE 1

RECURSIVE GCD(_, _)
GCD(a, b) == IF b = 0 THEN a ELSE GCD(b, a % b)

Rat(n, d) ==
    IF d = 0 THEN <<Sign(n), 0>>
    ELSE LET k == GCD(Abs(n), Abs(d))
         IN  <<Sign(d) * (n \div k), Abs(d) \div k>>

Int2Rat(n) == <<n, 1>>

IsFinite(a) == a[2] # 0

NaN == <<0, 0>>

RAdd(a, b) == IF IsFinite(a) /\ IsFinite(b)
              THEN Rat(a[1] * b[2] + b[1] * a[2], a[2] * b[2]) ELSE NaN

RNeg(a) == <<-a[1], a[2]>>

RSub(a, b) == RAdd(a, RNeg(b))

RMul(a, b) == IF IsFinite(a) /\ IsFinite(b)
              THEN Rat(a[1] * b[1], a[2] * b[2]) ELSE NaN

RDiv(a, b) == IF IsFinite(a) /\ IsFinite(b)
              THEN Rat(a[1] * b[2], a[2] * b[1]) ELSE NaN

RSq(a) == RMul(a, a)

R0 == Int2Rat(0)
R1 == Int2Rat(1)
R2 == Int2Rat(2)

(* numpy's elementwise array arithmetic on arrays of equal length *)
VSub(u, v) == [i \in DOMAIN u |-> RSub(u[i], v[i])]
VDiv(u, v) == [i \in DOMAIN u |-> RDiv(u[i], v[i])]

(* np.dot(R, c) for a 3x3 matrix R and a 3x1 column c, then                *)
(* .transpose()[0]: the single row of the transposed column.               *)
DotColumn(R, c) ==
    [i \in 1..3 |-> RAdd(RAdd(RMul(R[i][1], c[1]), RMul(R[i][2], c[2])),
                         RMul(R[i][3], c[3]))]

----------------------------------------------------------------------------
(* quaternion2euler, lines 86-92: the rotation matrix R of (w, x, y, z)    *)
(* applied to the column (0, 0, -1).                                       *)

RotationMatrix(q) ==
    LET w == q[1]
        x == q[2]
        y == q[3]
        z == q[4]
        T(a, b) == RMul(R2, RMul(a, b))     \* 2 * a * b
    IN  << << RSub(RSub(R1, T(y, y)), T(z, z)), RSub(T(x, y), T(z, w)),
              RAdd(T(x, z), T(y, w)) >>,
           << RAdd(T(x, y), T(z, w)), RSub(RSub(R1, T(x, x)), T(z, z)),
              RSub(T(y, z), T(x, w)) >>,
           << RSub(T(x, z), T(y, w)), RAdd(T(y, z), T(x, w)),
              RSub(RSub(R1, T(x, x)), T(y, y)) >> >>

DownAxis == <<R0, R0, Int2Rat(-1)>>

\* a slip of sign: the column (0, 0, 1) instead of (0, 0, -1)
quaternion2eulerUp(q) == DotColumn(RotationMatrix(q), <<R0, R0, R1>>)

quaternion2euler(q) == DotColumn(RotationMatrix(q), DownAxis)

----------------------------------------------------------------------------
(* The scene.  An object is a record                                       *)
(*   name                 <<base, index>>                                  *)
(*   props                its custom properties, obj[key]                  *)
(*   data                 the custom properties of obj.data, in key order, *)
(*                        each [key, value, isArray]                       *)
(*   location             obj.location                                     *)
(*   rotation_mode        obj.rotation_mode                                *)
(*   rotation_quaternion  obj.rotation_quaternion once the mode is         *)
(*                        'QUATERNION' (the host keeps the orientation     *)
(*                        when the mode is switched)                       *)

Iso2MeshName == <<"Iso2Mesh", 0>>
SourceName   == <<"source", 0>>
TumorName    == <<"tumor", 0>>
NoName       == <<"None", 0>>
RegionName(i) == <<"region", i>>

\* every name a scene may hold, in the host's (name-sorted) order
AllNames ==
    <<Iso2MeshName>> \o [i \in 1..MaxRegions |-> RegionName(i)]
                     \o <<SourceName, TumorName>>

None == [none |-> TRUE]

NoProps == [none |-> TRUE]

Identity == <<R1, R0, R0, R0>>
Origin   == <<R0, R0, R0>>

\* the optical properties of the tissue at position k of AllNames
TissueProps(k) ==
    [mua |-> 10 * k + 1, mus |-> 10 * k + 2, g |-> 10 * k + 3, n |-> 10 * k + 4]

SourceProps ==
    [srctype   |-> "pencil",
     srcparam1 |-> <<R1, R2, Int2Rat(3), Int2Rat(4)>>,
     srcparam2 |-> <<R2, R2, R1, Int2Rat(5)>>,
     unitinmm  |-> Int2Rat(3)]

\* the ways the data properties of the Iso2Mesh object can look
DataVariants ==
    LET a == [key |-> "a", value |-> <<1, 2, 3, 4>>, isArray |-> TRUE]
        b == [key |-> "b", value |-> <<5, 6, 7, 8>>, isArray |-> TRUE]
        s == [key |-> "b", value |-> <<9>>, isArray |-> FALSE]
    IN  { <<>>, <<a, b>>, <<a, s>>, <<s>> }

\* the default object of each name
DefaultObject(k) ==
    LET nm == AllNames[k]
    IN  [name     |-> nm,
         props    |-> IF nm = SourceName THEN SourceProps
                      ELSE IF nm = Iso2MeshName THEN NoProps
                      ELSE TissueProps(k),
         data     |-> <<>>,
         location |-> IF nm = SourceName
                      THEN <<R1, Int2Rat(-1), R2>> ELSE Origin,
         rotation_mode       |-> "XYZ",
         rotation_quaternion |-> IF nm = SourceName
                                 THEN <<R0, R1, R0, R0>> ELSE Identity]

HasProp(obj, key) == key \in DOMAIN obj.props

Names(objs) == {objs[i].name : i \in DOMAIN objs}

HasObject(objs, nm) == nm \in Names(objs)

\* bpy.data.objects[nm], for a name the collection holds
Lookup(objs, nm) == objs[CHOOSE i \in DOMAIN objs : objs[i].name = nm]

RECURSIVE SceneFrom(_, _)
\* the subsequence of the objects whose index in AllNames is in `keep`
SceneFrom(k, keep) ==
    IF k > Len(AllNames) THEN <<>>
    ELSE (IF k \in keep THEN <<DefaultObject(k)>> ELSE <<>>)
         \o SceneFrom(k + 1, keep)

SceneOf(keep) == SceneFrom(1, keep)

WithField(objs, nm, f, v) ==
    [i \in DOMAIN objs |->
        IF objs[i].name = nm THEN [objs[i] EXCEPT ![f] = v] ELSE objs[i]]

----------------------------------------------------------------------------
(* Module-level defaults, lines 29-40, and the operator's properties,      *)
(* lines 53-64, whose defaults they are.                                   *)

Defaults ==
    [nphoton |-> 10000, tend |-> "5e-9", tstep |-> "5e-9", method |-> "grid",
     outputtype |-> "flux", isreflect |-> TRUE, isnormalized |-> TRUE,
     basisorder |-> 1, debuglevel |-> "TP", gpuid |-> "1", colormap |-> "jet",
     tool |-> "1"]

\* enum_tool, lines 41-42: identifier |-> solver named by the item
enum_tool == [x \in {"1", "2"} |-> IF x = "1" THEN "MCX" ELSE "MMC"]

\* the values a caller or the settings dialog can give the properties
Settings ==
    [nphoton : {10000, 1000000}, tend : {"5e-9", "1e-8"},
     tstep : {"5e-9", "1e-10"}, method : {"grid", "elem"},
     outputtype : {"flux", "fluence", "energy"}, isreflect : BOOLEAN,
     isnormalized : BOOLEAN, basisorder : {0, 1}, debuglevel : {"TP", "M"},
     gpuid : {"1", "-1"}, colormap : {"jet"}, tool : DOMAIN enum_tool]

\* an operator instance whose properties were left at their defaults
DefaultSelf(gl) == gl

----------------------------------------------------------------------------
(* ImageMesh.mat: the image and the 4x4 affine matrix `scale`.             *)

Affine(scale, move) ==
    << <<scale[1], R0, R0, move[1]>>,
       <<R0, scale[2], R0, move[2]>>,
       <<R0, R0, scale[3], move[3]>>,
       <<R0, R0, R0, R1>> >>

DefaultMat ==
    [image |-> "vol",
     scale |-> Affine(<<R2, Rat(1, 2), Int2Rat(3)>>, <<R1, R2, Int2Rat(-3)>>)]

\* voxel sizes: the positive rationals with numerator and denominator
\* in 1 .. NumMax
ScaleValues == {Rat(n, d) : n \in 1..NumMax, d \in 1..NumMax}

\* places of the source
Placements == {<<Int2Rat(k), Int2Rat(-k), Int2Rat(k + 1)>> : k \in -1..1}

QComponents == {Rat(k, QMax) : k \in -QMax..QMax}

----------------------------------------------------------------------------
(* Initial states: the scene, the context object, ImageMesh.mat and the    *)
(* operator's properties are the inputs of a run.                          *)

NoFiles == [mmcinfo |-> None, mcx_result |-> None, plot_result |-> None]

InitLocals ==
    /\ g = Defaults
    /\ pc = "idle"
    /\ parameters = <<>>
    /\ direction = Identity
    /\ cfg = None
    /\ res = None
    /\ files = NoFiles
    /\ solverCalls = <<>>
    /\ log = <<>>
    /\ iter = NoName
    /\ panel = <<>>

BaseScene == SceneOf({k \in 1..Len(AllNames) : AllNames[k] # Iso2MeshName})

\* scenes of every structure, with any object (or none) the context object
InitStructure ==
    /\ \E keep \in SUBSET (1..Len(AllNames)) :
       \E d \in DataVariants :
           /\ Iso2MeshName \notin Names(SceneOf(keep)) => d = <<>>
           /\ objects = WithField(SceneOf(keep), Iso2MeshName, "data", d)
    /\ active \in Names(objects) \cup {NoName}
    /\ mat = DefaultMat
    /\ \E t \in DOMAIN enum_tool : self = [DefaultSelf(Defaults) EXCEPT !.tool = t]

\* every orientation of the source, which is the context object
InitOrientation ==
    /\ \E q \in QComponents \X QComponents \X QComponents \X QComponents :
           objects = WithField(BaseScene, SourceName, "rotation_quaternion", q)
    /\ active = SourceName
    /\ mat = DefaultMat
    /\ self = DefaultSelf(Defaults)

\* every placement of the source and every affine matrix
InitPlacement ==
    /\ \E loc \in Placements :
           objects = WithField(BaseScene, SourceName, "location", loc)
    /\ active = SourceName
    /\ \E sc \in ScaleValues \X ScaleValues \X ScaleValues :
       \E mv \in {Origin, <<R1, Int2Rat(-1), R2>>} :
           mat = [image |-> "vol", scale |-> Affine(sc, mv)]
    /\ self = DefaultSelf(Defaults)

\* every setting of the operator's properties
InitSettings ==
    /\ \E t \in {"pencil", "disk"} :
           objects = WithField(BaseScene, SourceName, "props",
                               [SourceProps EXCEPT !.srctype = t])
    /\ active = SourceName
    /\ mat = DefaultMat
    /\ self \in Settings

Init ==
    /\ InitLocals
    /\ \/ InitStructure
       \/ InitOrientation
       \/ InitPlacement
       \/ InitSettings

----------------------------------------------------------------------------
(* preparemmc, lines 70-79: the optical property list.                     *)

\* the loop of lines 73-74 over obj.data.keys(): the rows appended, and
\* whether a value without to_list() raised and ended the loop
RECURSIVE Iso2MeshRows(_)
Iso2MeshRows(data) ==
    IF data = <<>> THEN [rows |-> <<>>, raised |-> FALSE]
    ELSE IF ~Head(data).isArray THEN [rows |-> <<>>, raised |-> TRUE]
    ELSE LET rest == Iso2MeshRows(Tail(data))
         IN  [rows |-> <<Head(data).value>> \o rest.rows,
              raised |-> rest.raised]

\* line 79: the row of one object
PropRow(obj) == <<obj.props.mua, obj.props.mus, obj.props.g, obj.props.n>>

\* bpy.data.objects[0:-1]
AllButLast(objs) == SubSeq(objs, 1, Len(objs) - 1)

\* the loop of lines 76-79, appending to the rows gathered so far
RECURSIVE ObjectRows(_)
ObjectRows(objs) ==
    IF objs = <<>> THEN <<>>
    ELSE (IF HasProp(Head(objs), "mua") THEN <<PropRow(Head(objs))>> ELSE <<>>)
         \o ObjectRows(Tail(objs))

GatherParameters(objs) ==
    IF ~HasObject(objs, Iso2MeshName)
    THEN ObjectRows(AllButLast(objs))                \* KeyError at line 72
    ELSE LET got == Iso2MeshRows(Lookup(objs, Iso2MeshName).data)
         IN  IF got.raised
             THEN got.rows \o ObjectRows(AllButLast(objs))
             ELSE got.rows

----------------------------------------------------------------------------
(* preparemmc, lines 98-111: the configuration.                            *)

\* a slip: the translation taken from the last row instead of the last column
MoveFromRow(A) == <<A[4][1], A[4][2], A[4][3]>>

\* line 105
Move(A) == <<A[1][4], A[2][4], A[3][4]>>

\* line 106
Scale(A) == <<A[1][1], A[2][2], A[3][3]>>

\* a slip: tstep written where tend belongs
SettingsOfSwapped(slf) ==
    [nphoton |-> slf.nphoton, tstart |-> 0, tend |-> slf.tstep,
     tstep |-> slf.tstep, isreflect |-> slf.isreflect,
     isnormalized |-> slf.isnormalized, method |-> slf.method,
     outputtype |-> slf.outputtype, basisorder |-> slf.basisorder,
     debuglevel |-> slf.debuglevel, gpuid |-> slf.gpuid]

\* the entries of cfg that come from the operator's properties
SettingsOf(slf) ==
    [nphoton |-> slf.nphoton, tstart |-> 0, tend |-> slf.tend,
     tstep |-> slf.tstep, isreflect |-> slf.isreflect,
     isnormalized |-> slf.isnormalized, method |-> slf.method,
     outputtype |-> slf.outputtype, basisorder |-> slf.basisorder,
     debuglevel |-> slf.debuglevel, gpuid |-> slf.gpuid]

MakeCfg(obj, params, dirn, m, slf) ==
    LET location == obj.location
        move     == Move(m.scale)
        scale    == Scale(m.scale)
        st       == SettingsOf(slf)
    IN  [vol       |-> m.image,
         prop      |-> params,
         srctype   |-> obj.props.srctype,
         srcpos    |-> VDiv(VSub(location, move), scale),
         srcdir    |-> quaternion2euler(dirn),
         srcparam1 |-> VDiv(obj.props.srcparam1, Append(scale, R1)),
         srcparam2 |-> VDiv(obj.props.srcparam2, Append(scale, R1)),
         nphoton   |-> st.nphoton,
         unitinmm  |-> RMul(obj.props.unitinmm, scale[1]),
         tstart    |-> st.tstart,
         tend      |-> st.tend,
         tstep     |-> st.tstep,
         isreflect |-> st.isreflect,
         isnormalized |-> st.isnormalized,
         method    |-> st.method,
         outputtype |-> st.outputtype,
         basisorder |-> st.basisorder,
         debuglevel |-> st.debuglevel,
         gpuid     |-> st.gpuid]

----------------------------------------------------------------------------
(* The external solver and the plotted result, lines 116-119.              *)

\* what pmcx.run may return
Results ==
    { [flux |-> "flux_a", stat |-> [normalizer |-> "k_a"]],
      [flux |-> "flux_b", stat |-> [normalizer |-> "k_b"]] }

\* line 118, not evaluated: log10(flux[:,:,:,0] / normalizer + 1)
PlotFlux(r) ==
    [op |-> "log10(flux/normalizer+1)", flux |-> r.flux,
     normalizer |-> r.stat.normalizer]

----------------------------------------------------------------------------
(* The cleanup loop, lines 124-125.  The host's collection iterator holds  *)
(* a link into the list of objects; it hands out the object at the link    *)
(* and moves the link to that object's successor before the loop body      *)
(* runs, so the body's remove(obj) takes away an object the iterator has   *)
(* already left.                                                           *)

IndexOf(objs, nm) == CHOOSE i \in DOMAIN objs : objs[i].name = nm

IterBegin(objs) == IF objs = <<>> THEN NoName ELSE objs[1].name

\* a list-index iterator: after remove(obj) the successor has moved into
\* obj's place, and the next index is one past it
IterAdvanceByIndex(objs, nm) ==
    LET i == IndexOf(objs, nm)
    IN  IF i + 2 <= Len(objs) THEN objs[i + 2].name ELSE NoName

IterAdvance(objs, nm) ==
    LET i == IndexOf(objs, nm)
    IN  IF i < Len(objs) THEN objs[i + 1].name ELSE NoName

Remove(objs, nm) == SelectSeq(objs, LAMBDA o : o.name # nm)

----------------------------------------------------------------------------
(* The operator and the panel.                                             *)

\* the host runs handlers one at a time: nothing else runs inside execute
AtRest == pc \in {"idle", "dialog", "cancelled", "finished", "raised"}

\* invoke, lines 138-139: opens the settings dialog
Invoke ==
    /\ pc = "idle"
    /\ pc' = "dialog"
    /\ UNCHANGED <<objects, active, mat, self, g, parameters, direction, cfg,
                   res, files, solverCalls, log, iter, panel>>

\* the user dismisses the dialog
Cancel ==
    /\ pc = "dialog"
    /\ pc' = "cancelled"
    /\ UNCHANGED <<objects, active, mat, self, g, parameters, direction, cfg,
                   res, files, solverCalls, log, iter, panel>>

\* execute, lines 133-135, called directly or from the dialog's OK, into
\* preparemmc, lines 70-79
Execute ==
    /\ pc \in {"idle", "dialog"}
    /\ parameters' = GatherParameters(objects)
    /\ pc' = "source"
    /\ UNCHANGED <<objects, active, mat, self, g, direction, cfg, res, files,
                   solverCalls, log, iter, panel>>

\* lines 81-84, when there is no object 'source' (KeyError) or no context
\* object (AttributeError)
ReadSourceRaises ==
    /\ pc = "source"
    /\ ~HasObject(objects, SourceName) \/ active = NoName
    /\ pc' = "raised"
    /\ UNCHANGED <<objects, active, mat, self, g, parameters, direction, cfg,
                   res, files, solverCalls, log, iter, panel>>

\* lines 81-84: the rotation is read from the context object
ReadSource ==
    /\ pc = "source"
    /\ HasObject(objects, SourceName)
    /\ active # NoName
    /\ objects' = WithField(objects, active, "rotation_mode", "QUATERNION")
    /\ direction' = Lookup(objects, active).rotation_quaternion
    /\ pc' = "build"
    /\ UNCHANGED <<active, mat, self, g, parameters, cfg, res, files,
                   solverCalls, log, iter, panel>>

\* lines 86-111
BuildCfg ==
    /\ pc = "build"
    /\ cfg' = MakeCfg(Lookup(objects, SourceName), parameters, direction,
                      mat, self)
    /\ log' = Append(log, "cfg")
    /\ pc' = "save_info"
    /\ UNCHANGED <<objects, active, mat, self, g, parameters, direction, res,
                   files, solverCalls, iter, panel>>

\* a slip: the solver's input is not saved
SaveInfoSkipped ==
    /\ pc = "save_info"
    /\ pc' = "run"
    /\ UNCHANGED <<objects, active, mat, self, g, parameters, direction, cfg,
                   res, files, solverCalls, log, iter, panel>>

\* line 115
SaveInfo ==
    /\ pc = "save_info"
    /\ files' = [files EXCEPT !.mmcinfo = [prop |-> parameters, cfg |-> cfg]]
    /\ log' = Append(log, "mmcinfo.json")
    /\ pc' = "run"
    /\ UNCHANGED <<objects, active, mat, self, g, parameters, direction, cfg,
                   res, solverCalls, iter, panel>>

\* line 116: pmcx is the MCX solver
RunSolver ==
    /\ pc = "run"
    /\ solverCalls' = Append(solverCalls, [solver |-> "MCX", cfg |-> cfg])
    /\ log' = Append(log, "pmcx.run")
    /\ \E r \in Results : res' = r
    /\ pc' = "save_res"
    /\ UNCHANGED <<objects, active, mat, self, g, parameters, direction, cfg,
                   files, iter, panel>>

\* line 116, when the solver rejects the configuration or has no device
RunSolverRaises ==
    /\ pc = "run"
    /\ solverCalls' = Append(solverCalls, [solver |-> "MCX", cfg |-> cfg])
    /\ log' = Append(log, "pmcx.run")
    /\ pc' = "raised"
    /\ UNCHANGED <<objects, active, mat, self, g, parameters, direction, cfg,
                   res, files, iter, panel>>

\* line 117
SaveResult ==
    /\ pc = "save_res"
    /\ files' = [files EXCEPT !.mcx_result = res]
    /\ log' = Append(log, "mcx_result.json")
    /\ pc' = "save_plot"
    /\ UNCHANGED <<objects, active, mat, self, g, parameters, direction, cfg,
                   res, solverCalls, iter, panel>>

\* lines 118-120
SavePlot ==
    /\ pc = "save_plot"
    /\ files' = [files EXCEPT !.plot_result =
                     [flux |-> PlotFlux(res), scale |-> mat.scale]]
    /\ log' = Append(log, "plot_result.json")
    /\ pc' = "cleanup_begin"
    /\ UNCHANGED <<objects, active, mat, self, g, parameters, direction, cfg,
                   res, solverCalls, iter, panel>>

\* line 124: the for statement takes an iterator of bpy.data.objects
CleanupBegin ==
    /\ pc = "cleanup_begin"
    /\ iter' = IterBegin(objects)
    /\ pc' = "cleanup"
    /\ UNCHANGED <<objects, active, mat, self, g, parameters, direction, cfg,
                   res, files, solverCalls, log, panel>>

\* lines 124-125: one pass of the loop
CleanupStep ==
    /\ pc = "cleanup"
    /\ iter # NoName
    /\ iter' = IterAdvance(objects, iter)
    /\ objects' = Remove(objects, iter)
    /\ active' = IF active = iter THEN NoName ELSE active
    /\ log' = Append(log, "remove")
    /\ UNCHANGED <<mat, self, g, pc, parameters, direction, cfg, res, files,
                   solverCalls, panel>>

\* the loop ends; lines 126-131, and execute's return, line 136
Finish ==
    /\ pc = "cleanup"
    /\ iter = NoName
    /\ log' = Append(log, "FINISHED")
    /\ pc' = "finished"
    /\ UNCHANGED <<objects, active, mat, self, g, parameters, direction, cfg,
                   res, files, solverCalls, iter, panel>>

\* setmmcprop.draw, lines 149-151
Draw ==
    /\ AtRest
    /\ panel' = <<"object.dialog_operator">>
    /\ UNCHANGED <<objects, active, mat, self, g, pc, parameters, direction,
                   cfg, res, files, solverCalls, log, iter>>

Next ==
    \/ Invoke
    \/ Cancel
    \/ Execute
    \/ ReadSourceRaises
    \/ ReadSource
    \/ BuildCfg
    \/ SaveInfo
    \/ RunSolver
    \/ RunSolverRaises
    \/ SaveResult
    \/ SavePlot
    \/ CleanupBegin
    \/ CleanupStep
    \/ Finish
    \/ Draw

Spec == Init /\ [][Next]_vars

----------------------------------------------------------------------------
(* Properties                                                              *)

\* the positions at which the scene is still as execute found it, but for
\* the rotation mode set at line 83
BeforeCleanup ==
    pc \in {"source", "build", "save_info", "run", "save_res", "save_plot",
            "cleanup_begin"}

CfgBuilt == cfg # None

Written(f) == f # None

RunOrder ==
    <<"cfg", "mmcinfo.json", "pmcx.run", "mcx_result.json", "plot_result.json">>

C1_Steps ==
    /\ \A i \in DOMAIN log :
          /\ i <= Len(RunOrder) => log[i] = RunOrder[i]
          /\ i > Len(RunOrder) => log[i] \in {"remove", "FINISHED"}
          /\ log[i] = "FINISHED" => i = Len(log)
    /\ Len(solverCalls) <= 1
    /\ solverCalls # <<>> =>
          /\ Written(files.mmcinfo)
          /\ files.mmcinfo.cfg = solverCalls[1].cfg
          /\ solverCalls[1].cfg = cfg
    /\ Written(files.mcx_result) => solverCalls # <<>> /\ res # None
    /\ Written(files.plot_result) => Written(files.mcx_result)
    /\ pc = "finished" =>
          /\ Len(solverCalls) = 1
          /\ Written(files.mmcinfo)
          /\ Written(files.mcx_result)
          /\ Written(files.plot_result)
          /\ log[Len(log)] = "FINISHED"

\* C1: in every run of execute the configuration is built, then saved to
\* mmcinfo.json, then the solver is called exactly once with that same
\* configuration, then mcx_result.json and then plot_result.json are written;
\* execute has returned FINISHED only after all of that; invoke never calls
\* the solver, and the solver is never called before mmcinfo.json is written.
C1_RunOrder ==
    /\ []C1_Steps
    /\ [][Invoke => solverCalls' = solverCalls]_vars

C1_Witness ==
    /\ pc = "finished"
    /\ Len(solverCalls) = 1
    /\ log[Len(log)] = "FINISHED"
    /\ Len(log) > Len(RunOrder) + 1

NormSq(v) ==
    LET sq == [i \in DOMAIN v |-> RSq(v[i])]
    IN  IF Len(v) = 3 THEN RAdd(RAdd(sq[1], sq[2]), sq[3])
        ELSE RAdd(RAdd(sq[1], sq[2]), RAdd(sq[3], sq[4]))

Twice(a, b) == RMul(R2, RMul(a, b))

\* C2: cfg['srcdir'] is the rotation of (0,0,-1) by the rotation matrix of
\* the quaternion (w,x,y,z) read: ( -(2xz+2yw), -(2yz-2xw), -(1-2x^2-2y^2) );
\* the identity quaternion gives (0,0,-1), and a unit quaternion gives a
\* direction of squared length 1.
C2_SrcDir ==
    CfgBuilt =>
        LET w == direction[1]
            x == direction[2]
            y == direction[3]
            z == direction[4]
        IN  /\ cfg.srcdir =
                  << RNeg(RAdd(Twice(x, z), Twice(y, w))),
                     RNeg(RSub(Twice(y, z), Twice(x, w))),
                     RNeg(RSub(RSub(R1, Twice(x, x)), Twice(y, y))) >>
            /\ direction = Identity => cfg.srcdir = <<R0, R0, Int2Rat(-1)>>
            /\ NormSq(direction) = R1 => NormSq(cfg.srcdir) = R1

C2_Witness ==
    /\ CfgBuilt
    /\ NormSq(direction) = R1
    /\ direction[2] # R0
    /\ direction[3] # R0
    /\ cfg.srcdir # <<R0, R0, Int2Rat(-1)>>

\* C3: with move the translation column and scale the diagonal of the affine
\* matrix, cfg['srcpos'] = (location - move)/scale componentwise, so that
\* srcpos*scale + move is the source's location; the first three components
\* of srcparam1 and srcparam2 are divided by the matching scale component and
\* the fourth is unchanged; unitinmm is the source's unitinmm times scale[0].
C3_Affine ==
    (CfgBuilt /\ HasObject(objects, SourceName)) =>
        LET src == Lookup(objects, SourceName)
            A   == mat.scale
        IN  /\ \A i \in 1..3 :
                  /\ cfg.srcpos[i] =
                         RDiv(RSub(src.location[i], A[i][4]), A[i][i])
                  /\ RAdd(RMul(cfg.srcpos[i], A[i][i]), A[i][4])
                         = src.location[i]
                  /\ cfg.srcparam1[i] = RDiv(src.props.srcparam1[i], A[i][i])
                  /\ cfg.srcparam2[i] = RDiv(src.props.srcparam2[i], A[i][i])
            /\ cfg.srcparam1[4] = src.props.srcparam1[4]
            /\ cfg.srcparam2[4] = src.props.srcparam2[4]
            /\ cfg.unitinmm = RMul(src.props.unitinmm, A[1][1])

C3_Witness ==
    /\ CfgBuilt
    /\ HasObject(objects, SourceName)
    /\ mat.scale[1][1] # mat.scale[2][2]
    /\ mat.scale[1][1] # R1
    /\ mat.scale[3][3] # R1
    /\ Move(mat.scale) # Origin
    /\ Lookup(objects, SourceName).location # Origin
    /\ cfg.srcpos # Lookup(objects, SourceName).location

\* C4: the direction and the position of the light source in the
\* configuration are those of the object named 'source', whichever object is
\* the context object, and until the cleanup the run leaves the rotation mode
\* of every object other than the source as it was ('XYZ' in every scene
\* here).
C4_SourceOnly ==
    (BeforeCleanup /\ HasObject(objects, SourceName)) =>
        LET src == Lookup(objects, SourceName)
        IN  /\ CfgBuilt =>
                  /\ cfg.srcdir = quaternion2euler(src.rotation_quaternion)
                  /\ cfg.srcpos = VDiv(VSub(src.location, Move(mat.scale)),
                                       Scale(mat.scale))
            /\ \A i \in DOMAIN objects :
                  objects[i].name # SourceName
                      => objects[i].rotation_mode = "XYZ"

\* C5: each row of prop built from per-object properties is
\* (mua, mus, n, g) of one tissue object.
C5_RowOrder ==
    (CfgBuilt /\ BeforeCleanup /\ ~HasObject(objects, Iso2MeshName)) =>
        \A r \in DOMAIN cfg.prop :
            \E i \in DOMAIN objects :
                /\ HasProp(objects[i], "mua")
                /\ cfg.prop[r] = << objects[i].props.mua, objects[i].props.mus,
                                      objects[i].props.n, objects[i].props.g >>

Iso2MeshReadable(objs) ==
    /\ HasObject(objs, Iso2MeshName)
    /\ \A k \in DOMAIN Lookup(objs, Iso2MeshName).data :
           Lookup(objs, Iso2MeshName).data[k].isArray

\* C6: prop comes from exactly one source: one row per data property of
\* 'Iso2Mesh', in key order, when that object exists and all its data
\* properties can be read; otherwise one row for every object that carries
\* 'mua', in scene order, and nothing else.
C6_OneSource ==
    (CfgBuilt /\ BeforeCleanup) =>
        IF Iso2MeshReadable(objects)
        THEN LET data == Lookup(objects, Iso2MeshName).data
             IN  cfg.prop = [k \in DOMAIN data |-> data[k].value]
        ELSE cfg.prop = ObjectRows(objects)

\* C7: the solver that is run is the one the 'tool' setting names: MCX for
\* '1' and MMC for '2'.
C7_ToolSelects ==
    \A i \in DOMAIN solverCalls : solverCalls[i].solver = enum_tool[self.tool]

\* C8: nphoton, tend, tstep, isreflect, isnormalized, method, outputtype,
\* basisorder, debuglevel and gpuid of the cfg given to the solver and saved
\* in mmcinfo.json equal the operator's properties, tstart is 0, srctype is
\* the source object's; the module-level defaults are never modified.
C8_PassThrough ==
    /\ g = Defaults
    /\ \A c \in (IF CfgBuilt THEN {cfg} ELSE {})
             \cup {solverCalls[i].cfg : i \in DOMAIN solverCalls}
             \cup (IF Written(files.mmcinfo) THEN {files.mmcinfo.cfg} ELSE {}) :
          /\ c.nphoton = self.nphoton
          /\ c.tend = self.tend
          /\ c.tstep = self.tstep
          /\ c.isreflect = self.isreflect
          /\ c.isnormalized = self.isnormalized
          /\ c.method = self.method
          /\ c.outputtype = self.outputtype
          /\ c.basisorder = self.basisorder
          /\ c.debuglevel = self.debuglevel
          /\ c.gpuid = self.gpuid
          /\ c.tstart = 0
          /\ HasObject(objects, SourceName)
                 => c.srctype = Lookup(objects, SourceName).props.srctype

C8_Witness ==
    /\ pc = "finished"
    /\ Written(files.mmcinfo)
    /\ solverCalls # <<>>
    /\ \A k \in DOMAIN self \ {"colormap"} : self[k] # Defaults[k]
    /\ self.tend # self.tstep
    /\ cfg.srctype = "disk"
    /\ panel # <<>>

\* C9: after a successful execute no object is left in the scene, and no
\* object is removed before mmcinfo.json, mcx_result.json and
\* plot_result.json have all been written.
C9_Cleanup ==
    /\ pc = "finished" => objects = <<>>
    /\ (\E i \in DOMAIN log : log[i] = "remove") =>
          /\ Written(files.mmcinfo)
          /\ Written(files.mcx_result)
          /\ Written(files.plot_result)
    /\ ~(Written(files.mmcinfo) /\ Written(files.mcx_result)
            /\ Written(files.plot_result)) =>
          pc \notin {"cleanup", "finished"}

C9_Witness ==
    /\ pc = "finished"
    /\ objects = <<>>
    /\ Cardinality({i \in DOMAIN log : log[i] = "remove"}) = MaxRegions + 3

====
